---------------------------- MODULE Spec2Model ----------------------------
(***************************************************************************)
(* Model of gantz_core/src/node/mod.rs: the Node trait and its defaults,   *)
(* the delegating impls of Node for &N, Box, Rc and Arc, the Evaluator     *)
(* enum with n_inputs / n_outputs / expr, and CrateDep::from_str.          *)
(*                                                                         *)
(* Strings are sequences of one-character strings.  A syn::Expr is a       *)
(* record tagged by `kind`; a panic is the record PanicOut.                *)
(***************************************************************************)
EXTENDS Integers, Sequences, FiniteSets

VARIABLES
    text,      \* the &str handed to CrateDep::from_str
    parsed,    \* the Result<CrateDep, ParseCrateDepError> it returned
    ev,        \* the Evaluator value under query
    call,      \* the last Evaluator method call and what it returned
    arities,   \* the last MaxQueries values n_inputs() returned on `ev`
    node,      \* the underlying Node implementation
    handle,    \* the adapters wrapped around `node`, outermost first
    reply      \* the last Node method call made through `handle`

vars == <<text, parsed, ev, call, arities, node, handle, reply>>

---------------------------------------------------------------------------
(* Bounds *)

MaxLen == 5        \* longest input text of from_str
MaxParams == 2     \* most parameters of a function item / declared inputs
MaxTuple == 2      \* largest tuple return type / declared outputs
MaxDepth == 2      \* most adapters nested around a node
MaxQueries == 2    \* how many n_inputs() results are remembered

MaxArgs == MaxParams + 1   \* so that k+1 supplied arguments happen

---------------------------------------------------------------------------
(* Strings *)

Chars == {"a", "b", " ", "="}

Strings == UNION {[1..n -> Chars] : n \in 0..MaxLen}

\* char::is_whitespace, restricted to Chars
IsWhitespace(c) == c = " "

\* str::trim_start
RECURSIVE TrimStart(_)
TrimStart(s) ==
    IF s # <<>> /\ IsWhitespace(Head(s)) THEN TrimStart(Tail(s)) ELSE s

\* str::trim_end
RECURSIVE TrimEnd(_)
TrimEnd(s) ==
    IF s # <<>> /\ IsWhitespace(s[Len(s)])
    THEN TrimEnd(SubSeq(s, 1, Len(s) - 1))
    ELSE s

\* str::trim
Trim(s) == TrimEnd(TrimStart(s))

\* The items the iterator s.split(c) yields, in order.  `cur` is the segment
\* being collected.  The iterator always yields a last segment, so the
\* empty string yields one empty segment.
RECURSIVE SplitFrom(_, _, _)
SplitFrom(s, c, cur) ==
    IF s = <<>> THEN <<cur>>
    ELSE IF Head(s) = c THEN <<cur>> \o SplitFrom(Tail(s), c, <<>>)
    ELSE SplitFrom(Tail(s), c, Append(cur, Head(s)))

Split(s, c) == SplitFrom(s, c, <<>>)

\* Iterator::next followed by ok_or(ParseCrateDepError): the item and the
\* rest of the iterator, or the error when the iterator is exhausted.
NextOkOr(sides) ==
    IF sides = <<>>
    THEN [ok |-> FALSE, item |-> <<>>, rest |-> <<>>]
    ELSE [ok |-> TRUE, item |-> Head(sides), rest |-> Tail(sides)]

---------------------------------------------------------------------------
(* CrateDep::from_str *)

NotParsed == [tag |-> "None"]
ParseCrateDepError == [tag |-> "Err"]
CrateDep(name, source) == [tag |-> "Ok", name |-> name, source |-> source]

from_str(s) ==
    LET sides == Split(s, "=")
        first == NextOkOr(sides)
        second == NextOkOr(first.rest)
    IN  IF ~first.ok THEN ParseCrateDepError
        ELSE IF ~second.ok THEN ParseCrateDepError
        ELSE CrateDep(Trim(first.item), Trim(second.item))


---------------------------------------------------------------------------
(* syn expressions, restricted to the shapes this module builds or is given *)

ExprPath(ident) == [kind |-> "Path", ident |-> ident]
ExprCall(func, args) == [kind |-> "Call", func |-> func, args |-> args]
ExprTuple(elems) == [kind |-> "Tuple", elems |-> elems]

\* the outcome of a call that panicked instead of returning
PanicOut(msg) == [kind |-> "Panic", msg |-> msg]

\* syn::parse_quote! { state }
StateExpr == ExprPath("state")

\* argument expressions the graph assembler may supply
ArgExprs == {ExprPath("x"), ExprPath("y")}

ArgLists == UNION {[1..n -> ArgExprs] : n \in 0..MaxArgs}

---------------------------------------------------------------------------
(* syn::Signature and syn::ItemFn *)

ParamTypes == {"i32"}

Idents == {"f", "g"}

ReturnDefault == [kind |-> "Default"]
ReturnType(ty) == [kind |-> "Type", ty |-> ty]
TypeTuple(elems) == [kind |-> "Tuple", elems |-> elems]
TypeOther(k) == [kind |-> k]

\* every syn::Type variant other than Tuple behaves alike in count_fn_outputs
OtherTypeKinds == {"Path", "Paren", "Array"}

ReturnTypes ==
    {ReturnDefault}
    \cup {ReturnType(TypeTuple(e)) :
            e \in UNION {[1..m -> ParamTypes] : m \in 0..MaxTuple}}
    \cup {ReturnType(TypeOther(k)) : k \in OtherTypeKinds}

Signatures ==
    [ident : Idents,
     inputs : UNION {[1..k -> ParamTypes] : k \in 0..MaxParams},
     output : ReturnTypes]

ItemFns == [sig : Signatures]

\* `as u32` on a usize: the value modulo 2^32, written with 2^16 factors
\* so that no intermediate value leaves TLC's 32-bit integer range
AsU32(n) == n - ((n \div 65536) \div 65536) * 65536 * 65536

count_fn_inputs(signature) == Len(signature.inputs)

\* a tuple return type counted as a single output
count_fn_outputs_TupleAsOne(signature) ==
    IF signature.output.kind = "Default" THEN 0 ELSE 1

count_fn_outputs(signature) ==
    IF signature.output.kind = "Default" THEN 0
    ELSE IF signature.output.ty.kind = "Tuple"
         THEN Len(signature.output.ty.elems)
         ELSE 1

\* the state reference passed first instead of last
fn_call_expr_StateFirst(fn_item, args, stateful) ==
    IF count_fn_inputs(fn_item.sig) # Len(args)
    THEN PanicOut("the number of args to a function node must match n_inputs")
    ELSE ExprCall(ExprPath(fn_item.sig.ident),
                  (IF stateful THEN <<StateExpr>> ELSE <<>>) \o args)

\* the state reference counted as one of the declared parameters
fn_call_expr_StateCounted(fn_item, args, stateful) ==
    LET supplied == args \o (IF stateful THEN <<StateExpr>> ELSE <<>>)
    IN  IF count_fn_inputs(fn_item.sig) # Len(supplied)
        THEN PanicOut("the number of args to a function node must match n_inputs")
        ELSE ExprCall(ExprPath(fn_item.sig.ident), supplied)

fn_call_expr(fn_item, args, stateful) ==
    LET n_inputs == count_fn_inputs(fn_item.sig)
    IN  IF n_inputs # Len(args)
        THEN PanicOut("the number of args to a function node must match n_inputs")
        ELSE LET ident == fn_item.sig.ident
                 func == ExprPath(ident)
                 maybe_state_expr == IF stateful THEN <<StateExpr>> ELSE <<>>
             IN  ExprCall(func, args \o maybe_state_expr)

---------------------------------------------------------------------------
(* Evaluator *)

\* The generator closures an Evaluator::Expr may hold.  A closure is supplied
\* by the node implementation; these are three behaviours it can have:
\* wrap the arguments in a tuple, ignore them, or index the first one (which
\* panics on an empty argument list).
GenKinds == {"tuple", "const", "head"}

GenExpr(gen_expr, args) ==
    CASE gen_expr = "tuple" -> ExprTuple(args)
      [] gen_expr = "const" -> ExprPath("c")
      [] gen_expr = "head" ->
            IF args = <<>> THEN PanicOut("index out of bounds") ELSE args[1]

EvaluatorFn(fn_item) == [tag |-> "Fn", fn_item |-> fn_item]

EvaluatorExpr(gen_expr, n_in, n_out) ==
    [tag |-> "Expr", gen_expr |-> gen_expr, n_inputs |-> n_in, n_outputs |-> n_out]

Evaluators ==
    {EvaluatorFn(f) : f \in ItemFns}
    \cup {EvaluatorExpr(g, i, o) :
            g \in GenKinds, i \in 0..MaxParams, o \in 0..MaxTuple}

\* the two counts of the Expr variant swapped
n_inputs_Swapped(self) ==
    IF self.tag = "Fn"
    THEN AsU32(count_fn_inputs(self.fn_item.sig))
    ELSE self.n_outputs

n_inputs(self) ==
    IF self.tag = "Fn"
    THEN AsU32(count_fn_inputs(self.fn_item.sig))
    ELSE self.n_inputs

n_outputs(self) ==
    IF self.tag = "Fn"
    THEN AsU32(count_fn_outputs(self.fn_item.sig))
    ELSE self.n_outputs

\* the argument count asserted for both variants
expr_CheckedBoth(self, args, stateful) ==
    IF self.tag = "Fn"
    THEN [out |-> fn_call_expr(self.fn_item, args, stateful), gen_calls |-> 0]
    ELSE IF self.n_inputs # Len(args)
         THEN [out |-> PanicOut("arity"), gen_calls |-> 0]
         ELSE [out |-> GenExpr(self.gen_expr, args), gen_calls |-> 1]

\* the state reference handed to the generator as well
expr_StateToGenerator(self, args, stateful) ==
    IF self.tag = "Fn"
    THEN [out |-> fn_call_expr(self.fn_item, args, stateful), gen_calls |-> 0]
    ELSE [out |-> GenExpr(self.gen_expr,
                          args \o (IF stateful THEN <<StateExpr>> ELSE <<>>)),
          gen_calls |-> 1]

\* Evaluator::expr: what it returns (or the panic), and how many times it
\* invoked the generator closure on the way.
expr(self, args, stateful) ==
    IF self.tag = "Fn"
    THEN [out |-> fn_call_expr(self.fn_item, args, stateful), gen_calls |-> 0]
    ELSE [out |-> GenExpr(self.gen_expr, args), gen_calls |-> 1]

---------------------------------------------------------------------------
(* The Node trait *)

None == [some |-> FALSE]
Some(v) == [some |-> TRUE, val |-> v]

\* the four provided methods of the trait; evaluator() is required
ProvidedOps == {"push_eval", "pull_eval", "state_type", "crate_deps"}
NodeOps == {"evaluator"} \cup ProvidedOps

\* an EvalFn: a signature and the attributes of the generated item
EvalFn(sig) == [signature |-> sig, fn_attrs |-> <<>>]

PushFn == EvalFn([ident |-> "push", inputs |-> <<>>, output |-> ReturnDefault])
PullFn == EvalFn([ident |-> "pull", inputs |-> <<>>, output |-> ReturnDefault])

DepA == [name |-> <<"a">>, source |-> <<"b">>]
DepB == [name |-> <<"b">>, source |-> <<"a">>]

\* the bodies of the provided methods
default_push_eval == None
default_pull_eval == None
default_state_type == None
\* a provided method that does not return the empty list
default_crate_deps_NonEmpty == <<DepA>>

default_crate_deps == <<>>

\* what an implementation may return from each method it defines itself
OwnValues(op) ==
    CASE op = "push_eval" -> {None, Some(PushFn)}
      [] op = "pull_eval" -> {None, Some(PullFn)}
      [] op = "state_type" -> {None, Some(TypeOther("Path"))}
      [] op = "crate_deps" -> {<<>>, <<DepA>>, <<DepA, DepB>>}

TraitDefault(op) ==
    CASE op = "push_eval" -> default_push_eval
      [] op = "pull_eval" -> default_pull_eval
      [] op = "state_type" -> default_state_type
      [] op = "crate_deps" -> default_crate_deps

\* the evaluators the node implementations of the model return
NodeEvaluators ==
    {EvaluatorFn([sig |-> [ident |-> "f", inputs |-> <<"i32">>,
                           output |-> ReturnDefault]]),
     EvaluatorExpr("tuple", 1, 1)}

\* A Node implementation: its evaluator, the provided methods it defines
\* itself (`overrides`) and what each of those returns (`own`).
OwnOf(o, op) == IF op \in o THEN OwnValues(op) ELSE {TraitDefault(op)}

Nodes ==
    UNION {
        {[evaluator |-> e, overrides |-> o,
          own |-> [push_eval |-> a, pull_eval |-> b,
                   state_type |-> c, crate_deps |-> d]] :
            e \in NodeEvaluators,
            a \in OwnOf(o, "push_eval"), b \in OwnOf(o, "pull_eval"),
            c \in OwnOf(o, "state_type"), d \in OwnOf(o, "crate_deps")} :
        o \in SUBSET ProvidedOps}

\* a method call on the implementation itself
NodeCall(n, op) ==
    IF op = "evaluator" THEN n.evaluator
    ELSE IF op \in n.overrides THEN n.own[op]
    ELSE TraitDefault(op)

---------------------------------------------------------------------------
(* impl Node for &N, and for Box / Rc / Arc over dyn Node *)

Adapters == {"Ref", "Box", "Rc", "Arc"}

Handles == UNION {[1..d -> Adapters] : d \in 0..MaxDepth}

RECURSIVE Call(_, _, _)

\* impl<'a, N> Node for &'a N: every method is (**self).method()
RefCall(inner, n, op) == Call(inner, n, op)

\* crate_deps left out of the macro, so the provided method answers
PtrCall_NoCrateDeps(inner, n, op) ==
    IF op = "crate_deps" THEN TraitDefault(op) ELSE Call(inner, n, op)

\* impl_node_for_ptr!: every method is (**self).method()
PtrCall(inner, n, op) == Call(inner, n, op)

\* a method call through the adapters `h` (outermost first) around `n`
Call(h, n, op) ==
    IF h = <<>> THEN NodeCall(n, op)
    ELSE IF Head(h) = "Ref" THEN RefCall(Tail(h), n, op)
    ELSE PtrCall(Tail(h), n, op)

---------------------------------------------------------------------------
(* State machine *)

NoEvaluator == [tag |-> "None"]
NoNode == [evaluator |-> NoEvaluator, overrides |-> {},
           own |-> [push_eval |-> None, pull_eval |-> None,
                    state_type |-> None, crate_deps |-> <<>>]]
IdleCall == [op |-> "idle"]
IdleReply == [op |-> "idle"]

ParseIdle == text = <<>> /\ parsed = NotParsed
EvalIdle == ev = NoEvaluator /\ call = IdleCall /\ arities = <<>>
NodeIdle == node = NoNode /\ handle = <<>> /\ reply = IdleReply

\* a text is at hand and nothing has been parsed
InitParse == text \in Strings /\ parsed = NotParsed /\ EvalIdle /\ NodeIdle

\* an Evaluator has been constructed and not yet queried
InitEval == ev \in Evaluators /\ call = IdleCall /\ arities = <<>>
            /\ ParseIdle /\ NodeIdle

\* a Node implementation has been constructed; nothing wraps it yet
InitNode == node \in Nodes /\ handle = <<>> /\ reply = IdleReply
            /\ ParseIdle /\ EvalIdle

\* text.parse::<CrateDep>()
FromStr ==
    /\ parsed = NotParsed
    /\ parsed' = from_str(text)
    /\ UNCHANGED <<text, ev, call, arities, node, handle, reply>>

\* ev.n_inputs()
NInputs ==
    /\ ev # NoEvaluator
    /\ call' = [op |-> "n_inputs", ret |-> n_inputs(ev)]
    /\ arities' = IF Len(arities) < MaxQueries
                   THEN Append(arities, n_inputs(ev))
                   ELSE Append(Tail(arities), n_inputs(ev))
    /\ UNCHANGED <<text, parsed, ev, node, handle, reply>>

\* ev.n_outputs()
NOutputs ==
    /\ ev # NoEvaluator
    /\ call' = [op |-> "n_outputs", ret |-> n_outputs(ev)]
    /\ UNCHANGED <<text, parsed, ev, arities, node, handle, reply>>

\* ev.expr(args, stateful)
Expr(args, stateful) ==
    /\ ev # NoEvaluator
    /\ LET r == expr(ev, args, stateful)
       IN  call' = [op |-> "expr", args |-> args, stateful |-> stateful,
                    out |-> r.out, gen_calls |-> r.gen_calls]
    /\ UNCHANGED <<text, parsed, ev, arities, node, handle, reply>>

\* the assembler takes a reference to, or boxes / shares, what it holds
Wrap(a) ==
    /\ node # NoNode
    /\ Len(handle) < MaxDepth
    /\ handle' = <<a>> \o handle
    /\ UNCHANGED <<text, parsed, ev, call, arities, node, reply>>

\* a Node method called on what the assembler holds
Query(op) ==
    /\ node # NoNode
    /\ reply' = [op |-> op, via |-> handle, ret |-> Call(handle, node, op)]
    /\ UNCHANGED <<text, parsed, ev, call, arities, node, handle>>

NextParse == FromStr

NextEval ==
    \/ NInputs
    \/ NOutputs
    \/ \E args \in ArgLists, stateful \in BOOLEAN : Expr(args, stateful)

NextNode ==
    \/ \E a \in Adapters : Wrap(a)
    \/ \E op \in NodeOps : Query(op)

SpecParse == InitParse /\ [][NextParse]_vars
SpecEval == InitEval /\ [][NextEval]_vars
SpecNode == InitNode /\ [][NextNode]_vars

---------------------------------------------------------------------------
(* CrateDep::from_str: claims *)

HasEq(s) == \E i \in 1..Len(s) : s[i] = "="

\* position of the first `=`, or Len(s) + 1 when there is none
FirstEq(s) ==
    IF HasEq(s) THEN CHOOSE i \in 1..Len(s) :
                        s[i] = "=" /\ \A j \in 1..(i - 1) : s[j] # "="
    ELSE Len(s) + 1

BeforeFirstEq(s) == SubSeq(s, 1, FirstEq(s) - 1)
AfterFirstEq(s) == SubSeq(s, FirstEq(s) + 1, Len(s))

\* C1: for every input with at least one `=`, from_str returns the CrateDep
\* whose name is the trimmed text before the first `=` and whose source is
\* the trimmed text of everything after the first `=`, later `=` included.
C1_SplitOnFirstEqOnly ==
    (parsed # NotParsed /\ HasEq(text)) =>
        parsed = CrateDep(Trim(BeforeFirstEq(text)), Trim(AfterFirstEq(text)))

\* C2: from_str returns Ok exactly when a `=` is present and there is a
\* name before it; every other input gets ParseCrateDepError.
C2_ErrWithoutEqOrName ==
    parsed # NotParsed =>
        (parsed.tag = "Ok" <=> (HasEq(text) /\ BeforeFirstEq(text) # <<>>))

---------------------------------------------------------------------------
(* Evaluator: claims *)

IsFnExprCall == call.op = "expr" /\ ev.tag = "Fn"
IsGenExprCall == call.op = "expr" /\ ev.tag = "Expr"
DeclaredParams == Len(ev.fn_item.sig.inputs)

\* C3: a function-based evaluator with k parameters, given exactly k
\* arguments, returns a call of the function's own name on those arguments
\* in order, followed by one `state` argument exactly when stateful.
C3_FnCallArgs ==
    (IsFnExprCall /\ Len(call.args) = DeclaredParams) =>
        /\ call.out.kind = "Call"
        /\ call.out.func = ExprPath(ev.fn_item.sig.ident)
        /\ call.out.args = IF call.stateful
                           THEN Append(call.args, StateExpr)
                           ELSE call.args
        /\ Len(call.out.args) = DeclaredParams + (IF call.stateful THEN 1 ELSE 0)

C3_Witness ==
    /\ IsFnExprCall
    /\ DeclaredParams = 2
    /\ call.args = <<ExprPath("x"), ExprPath("y")>>
    /\ call.stateful
    /\ call.out = ExprCall(ExprPath(ev.fn_item.sig.ident),
                           <<ExprPath("x"), ExprPath("y"), StateExpr>>)

\* C4: a function-based evaluator with k parameters given any other number
\* of arguments panics, whatever `stateful` is; no call expression results.
C4_FnArityMismatchPanics ==
    (IsFnExprCall /\ Len(call.args) # DeclaredParams) =>
        call.out.kind = "Panic"

C4_Witness ==
    /\ IsFnExprCall
    /\ DeclaredParams = 1
    /\ Len(call.args) = 2
    /\ ~call.stateful
    /\ call.out.kind = "Panic"

\* C5 as stated: for an evaluator of either variant, expr never returns an
\* expression when the number of arguments differs from n_inputs().
C5_AnyArityMismatchPanics ==
    (call.op = "expr" /\ Len(call.args) # n_inputs(ev)) =>
        call.out.kind = "Panic"

\* C5 amended: when the number of arguments differs from n_inputs(), a
\* function-based evaluator panics, while an expression-based evaluator is
\* not checked: expr returns what the generator makes of the arguments.
C5_OnlyFnArityChecked ==
    (call.op = "expr" /\ Len(call.args) # n_inputs(ev)) =>
        IF ev.tag = "Fn"
        THEN call.out.kind = "Panic"
        ELSE call.out = GenExpr(ev.gen_expr, call.args)

C5_Witness ==
    /\ IsGenExprCall
    /\ ev.n_inputs = 1
    /\ call.args = <<ExprPath("x"), ExprPath("y")>>
    /\ call.out = ExprTuple(<<ExprPath("x"), ExprPath("y")>>)

\* C6: n_outputs is 0 for a unit return type (omitted or written `()`), m
\* for a tuple of arity m, 1 for any other return type; for an
\* expression-based evaluator it is the n_outputs supplied.
C6_NOutputs ==
    call.op = "n_outputs" =>
        IF ev.tag = "Expr" THEN call.ret = ev.n_outputs
        ELSE LET output == ev.fn_item.sig.output
             IN  IF output = ReturnDefault \/ output = ReturnType(TypeTuple(<<>>))
                 THEN call.ret = 0
                 ELSE IF output.ty.kind = "Tuple"
                      THEN call.ret = Len(output.ty.elems)
                      ELSE call.ret = 1

C6_Witness ==
    /\ call.op = "n_outputs"
    /\ ev.tag = "Fn"
    /\ ev.fn_item.sig.output = ReturnType(TypeTuple(<<"i32", "i32">>))
    /\ call.ret = 2

\* C7: n_inputs is k for a function-based evaluator with k parameters and
\* the n_inputs supplied for an expression-based one, and repeated queries
\* on one evaluator all return that value.
C7_NInputs ==
    LET k == IF ev.tag = "Fn" THEN DeclaredParams ELSE ev.n_inputs
    IN  /\ call.op = "n_inputs" => call.ret = k
        /\ \A i \in 1..Len(arities) : arities[i] = k

C7_Witness ==
    /\ call.op = "n_inputs"
    /\ ev.tag = "Expr"
    /\ ev.n_inputs = 2
    /\ ev.n_outputs = 0
    /\ arities = <<2, 2>>

\* C10: for an expression-based evaluator, expr returns what one invocation
\* of the generator on the supplied arguments returns, whether stateful or
\* not: no state argument is added.
C10_ExprIsGeneratorResult ==
    IsGenExprCall =>
        /\ call.out = GenExpr(ev.gen_expr, call.args)
        /\ call.gen_calls = 1
        /\ call.out = expr(ev, call.args, ~call.stateful).out

C10_Witness ==
    /\ IsGenExprCall
    /\ ev.gen_expr = "tuple"
    /\ call.stateful
    /\ call.args = <<ExprPath("y"), ExprPath("x")>>
    /\ call.out = ExprTuple(<<ExprPath("y"), ExprPath("x")>>)

---------------------------------------------------------------------------
(* Node: claims *)

\* C8: each of the five methods called through any adapters returns what
\* the same method returns on the underlying node.
C8_AdaptersDelegate ==
    reply.op # "idle" => reply.ret = NodeCall(node, reply.op)

C8_Witness ==
    /\ reply.op = "crate_deps"
    /\ reply.via = <<"Ref", "Arc">>
    /\ "crate_deps" \in node.overrides
    /\ reply.ret = <<DepA, DepB>>

\* C9: on a node that defines only evaluator(), push_eval, pull_eval and
\* state_type return None and crate_deps returns the empty list.
C9_MinimalNodeDefaults ==
    node.overrides = {} =>
        /\ reply.op = "push_eval" => reply.ret = None
        /\ reply.op = "pull_eval" => reply.ret = None
        /\ reply.op = "state_type" => reply.ret = None
        /\ reply.op = "crate_deps" => reply.ret = <<>>

C9_Witness ==
    /\ node # NoNode
    /\ node.overrides = {}
    /\ reply.op = "crate_deps"
    /\ reply.via = <<>>
    /\ reply.ret = <<>>

=============================================================================
